---- MODULE Spec2Model ----
(***************************************************************************)
(* Issue-reference graph of a GitHub repository (src/src/App.tsx):         *)
(*   - findIssueReferences and buildGraphData, the pure graph builder;     *)
(*   - fetchAllIssues and handleSubmit, the paginated fetch pipeline with  *)
(*     its request budget and the concurrent per-issue comment requests.   *)
(* Texts are sequences of one-character strings; issue numbers are         *)
(* naturals; node and edge ids are the decimal strings the code builds     *)
(* with template literals.                                                 *)
(***************************************************************************)
EXTENDS Integers, Sequences, FiniteSets, TLC

(***************************************************************************)
(* Bounds of the model.                                                    *)
(***************************************************************************)
\* issues in a list handed to buildGraphData; their numbers are 1..MaxIssues
MaxIssues == 3
\* the numbers a body or comment of the builder's inputs may mention
MentionedNumbers == {1, 2}

(***************************************************************************)
(* Texts.                                                                  *)
(***************************************************************************)
Digits == <<"0", "1", "2", "3", "4", "5", "6", "7", "8", "9">>

IsDigit(c) == \E d \in 1..10 : Digits[d] = c

DigitValue(c) == (CHOOSE d \in 1..10 : Digits[d] = c) - 1

\* issue.body of an issue the API returned without a body (JSON null)
Null == <<"null">>

\* `${n}`: the decimal string of a non-negative integer
RECURSIVE NumberToString(_)
NumberToString(n) ==
  IF n < 10 THEN <<Digits[n + 1]>>
  ELSE NumberToString(n \div 10) \o <<Digits[(n % 10) + 1]>>

\* parseInt of a string of decimal digits (leading zeros carry no value)
RECURSIVE ParseInt(_)
ParseInt(ds) ==
  IF ds = <<>> THEN 0
  ELSE 10 * ParseInt(SubSeq(ds, 1, Len(ds) - 1)) + DigitValue(ds[Len(ds)])

\* the end of the longest run of digits of text that starts at position i
RECURSIVE DigitRunEnd(_, _)
DigitRunEnd(text, i) ==
  IF i <= Len(text) /\ IsDigit(text[i]) THEN DigitRunEnd(text, i + 1) ELSE i

\* MatchAll as it would be were the pattern /(\d+)/g, without the '#'
RECURSIVE MatchAllDigitRuns(_, _)
MatchAllDigitRuns(text, i) ==
  IF i > Len(text) THEN <<>>
  ELSE IF IsDigit(text[i])
       THEN <<SubSeq(text, i, DigitRunEnd(text, i) - 1)>>
              \o MatchAllDigitRuns(text, DigitRunEnd(text, i))
       ELSE MatchAllDigitRuns(text, i + 1)

\* text.match(/#(\d+)/g): the matches from position i on, left to right,
\* each the digits after the '#' (match.substring(1))
RECURSIVE MatchAll(_, _)
MatchAll(text, i) ==
  IF i > Len(text) THEN <<>>
  ELSE IF text[i] = "#" /\ DigitRunEnd(text, i + 1) > i + 1
       THEN <<SubSeq(text, i + 1, DigitRunEnd(text, i + 1) - 1)>>
              \o MatchAll(text, DigitRunEnd(text, i + 1))
       ELSE MatchAll(text, i + 1)

findIssueReferences(text) ==
  LET matches == MatchAll(text, 1)
  IN  [k \in 1..Len(matches) |-> ParseInt(matches[k])]

(***************************************************************************)
(* validateGitHubUrl.                                                      *)
(***************************************************************************)
\* [a-zA-Z]
Letters ==
  {"a", "b", "c", "d", "e", "f", "g", "h", "i", "j", "k", "l", "m", "n",
   "o", "p", "q", "r", "s", "t", "u", "v", "w", "x", "y", "z", "A", "B",
   "C", "D", "E", "F", "G", "H", "I", "J", "K", "L", "M", "N", "O", "P",
   "Q", "R", "S", "T", "U", "V", "W", "X", "Y", "Z"}

\* [a-zA-Z0-9-], the characters of an owner
OwnerChars == Letters \cup {Digits[d] : d \in 1..10} \cup {"-"}

\* [a-zA-Z0-9-._], the characters of a repository name
RepoChars == OwnerChars \cup {".", "_"}

\* https://github.com/
UrlPrefix ==
  <<"h", "t", "t", "p", "s", ":", "/", "/", "g", "i", "t", "h", "u", "b",
    ".", "c", "o", "m", "/">>

\* the end of the longest run of characters of class that starts at i
RECURSIVE ClassRunEnd(_, _, _)
ClassRunEnd(text, i, class) ==
  IF i <= Len(text) /\ text[i] \in class THEN ClassRunEnd(text, i + 1, class) ELSE i

\* validateGitHubUrl as it would be without the $ of the pattern
validateGitHubUrlUnanchored(url) ==
  LET n == Len(UrlPrefix)
      ownerEnd == ClassRunEnd(url, n + 1, OwnerChars)
      repoEnd == ClassRunEnd(url, ownerEnd + 1, RepoChars)
  IN  /\ Len(url) >= n
      /\ SubSeq(url, 1, n) = UrlPrefix
      /\ ownerEnd > n + 1
      /\ ownerEnd <= Len(url)
      /\ url[ownerEnd] = "/"
      /\ repoEnd > ownerEnd + 1

\* /^https:\/\/github\.com\/[a-zA-Z0-9-]+\/[a-zA-Z0-9-._]+\/?$/.test(url):
\* neither class holds "/", so each + takes the whole run
validateGitHubUrl(url) ==
  LET n == Len(UrlPrefix)
      ownerEnd == ClassRunEnd(url, n + 1, OwnerChars)
      repoEnd == ClassRunEnd(url, ownerEnd + 1, RepoChars)
  IN  /\ Len(url) >= n
      /\ SubSeq(url, 1, n) = UrlPrefix
      /\ ownerEnd > n + 1
      /\ ownerEnd <= Len(url)
      /\ url[ownerEnd] = "/"
      /\ repoEnd > ownerEnd + 1
      /\ \/ repoEnd = Len(url) + 1
         \/ repoEnd = Len(url) /\ url[repoEnd] = "/"

\* the URL the user retypes between two builds: a repository's, or one with
\* a path after the repository
ValidUrl == UrlPrefix \o <<"o", "-", "1", "/", "r", ".", "j", "s">>

UrlWithPath == ValidUrl \o <<"/", "i", "s", "s", "u", "e", "s">>

EditedUrls == {ValidUrl, UrlWithPath}

\* what the URL field may hold at the first submit
Urls ==
  EditedUrls \cup
  {<<>>,
   UrlPrefix,
   ValidUrl \o <<"/", "/">>,
   Tail(ValidUrl),
   UrlPrefix \o <<"o", "_", "1", "/", "r">>,
   UrlPrefix \o <<"o">>,
   UrlPrefix \o <<"o", "/">>,
   <<"h", "t", "t", "p", ":", "/", "/">> \o SubSeq(ValidUrl, 9, Len(ValidUrl))}

(***************************************************************************)
(* JavaScript containers.                                                  *)
(***************************************************************************)
\* [...new Set(xs)]: the distinct elements in order of first occurrence
RECURSIVE Dedup(_)
Dedup(xs) ==
  IF xs = <<>> THEN <<>>
  ELSE LET front == Dedup(SubSeq(xs, 1, Len(xs) - 1))
           x == xs[Len(xs)]
       IN  IF \E k \in 1..Len(front) : front[k] = x THEN front
           ELSE Append(front, x)

\* xs.flatMap(f) for a list of lists already mapped
RECURSIVE Flatten(_)
Flatten(xss) ==
  IF xss = <<>> THEN <<>> ELSE Head(xss) \o Flatten(Tail(xss))

EmptyMap == <<>>

MapHas(m, k) == k \in DOMAIN m

\* MapSet as it would be were the other entries lost
MapSetForgetting(m, k, v) == (k :> v)

\* m.set(k, v): the entry of k is added or replaced
MapSet(m, k, v) == (k :> v) @@ m

\* m.get(k) || d
MapGetOr(m, k, d) == IF k \in DOMAIN m THEN m[k] ELSE d

(***************************************************************************)
(* buildGraphData.                                                         *)
(***************************************************************************)
\* the body of the first loop: the lookup map and a zeroed in-degree count
IndexIssue(issue, acc) ==
  [issueMap |-> MapSet(acc.issueMap, issue.number, issue),
   inDegreeCount |-> MapSet(acc.inDegreeCount, NumberToString(issue.number), 0)]

\* TLC evaluates a LET definition when it is first needed; this makes it
\* evaluate v where it stands, so that a long loop is not unwound from its end
Evaluated(v) == v = v

\* first loop, issues[lo..hi] in list order (the range is halved only to
\* keep the evaluation shallow: the steps and their order are the loop's)
RECURSIVE IndexIssues(_, _, _, _)
IndexIssues(issues, lo, hi, acc) ==
  IF lo > hi THEN acc
  ELSE IF lo = hi THEN IndexIssue(issues[lo], acc)
  ELSE LET mid == (lo + hi) \div 2
           left == IndexIssues(issues, lo, mid, acc)
       IN  IF Evaluated(left) THEN IndexIssues(issues, mid + 1, hi, left) ELSE left

\* issue.body || ""
BodyOrEmpty(body) == IF body = Null THEN <<>> ELSE body

\* AllRefs as it would be if the comments were left out
AllRefsOfBodyOnly(issue, commentsMap) ==
  Dedup(findIssueReferences(BodyOrEmpty(issue.body)))

\* the deduplicated references of an issue's body and comments
AllRefs(issue, commentsMap) ==
  LET bodyRefs == findIssueReferences(BodyOrEmpty(issue.body))
      comments == MapGetOr(commentsMap, issue.number, <<>>)
      commentRefs ==
        Flatten([k \in 1..Len(comments) |-> findIssueReferences(comments[k].body)])
  IN  Dedup(bodyRefs \o commentRefs)

\* IsEdge as it would be without the test against the issue's own number
IsEdgeWithoutSelfTest(issueMap, refNumber, issue) == MapHas(issueMap, refNumber)

\* the guard of an edge
IsEdge(issueMap, refNumber, issue) ==
  MapHas(issueMap, refNumber) /\ refNumber # issue.number

\* allRefs.forEach: the edges of one issue and the in-degree counts
RECURSIVE AddEdges(_, _, _, _)
AddEdges(refs, issue, issueMap, acc) ==
  IF refs = <<>> THEN acc
  ELSE LET refNumber == Head(refs)
           issueId == NumberToString(issue.number)
           refId == NumberToString(refNumber)
       IN  IF IsEdge(issueMap, refNumber, issue)
           THEN AddEdges(Tail(refs), issue, issueMap,
                  [acc EXCEPT
                     !.edges = Append(@, [id |-> issueId \o <<"-">> \o refId,
                                          source |-> issueId,
                                          target |-> refId]),
                     !.inDegreeCount =
                        MapSet(@, refId, MapGetOr(@, refId, 0) + 1)])
           ELSE AddEdges(Tail(refs), issue, issueMap, acc)

\* the node pushed for an issue, before its size is known
NewNode(issue) ==
  [id |-> NumberToString(issue.number),
   label |-> <<"#">> \o NumberToString(issue.number),
   size |-> 1,
   number |-> issue.number,
   body |-> issue.body]

\* the body of the second loop: the node of an issue, then its edges
CollectIssue(issue, commentsMap, issueMap, acc) ==
  AddEdges(AllRefs(issue, commentsMap), issue, issueMap,
           [acc EXCEPT !.nodes = Append(@, NewNode(issue))])

\* second loop, issues[lo..hi] in list order
RECURSIVE CollectNodesAndEdges(_, _, _, _, _, _)
CollectNodesAndEdges(issues, lo, hi, commentsMap, issueMap, acc) ==
  IF lo > hi THEN acc
  ELSE IF lo = hi THEN CollectIssue(issues[lo], commentsMap, issueMap, acc)
  ELSE LET mid == (lo + hi) \div 2
           left == CollectNodesAndEdges(issues, lo, mid, commentsMap, issueMap, acc)
       IN  IF Evaluated(left)
           THEN CollectNodesAndEdges(issues, mid + 1, hi, commentsMap, issueMap, left)
           ELSE left

Max(a, b) == IF a >= b THEN a ELSE b

\* NodeSize as it would be if the in-degree were not raised by one
NodeSizeWithoutIncrement(inDegreeCount, node) ==
  Max(1, MapGetOr(inDegreeCount, node.id, 0))

\* third loop: node.size = Math.max(1, inDegree + 1)
NodeSize(inDegreeCount, node) == Max(1, MapGetOr(inDegreeCount, node.id, 0) + 1)

buildGraphData(issues, commentsMap) ==
  LET index == IndexIssues(issues, 1, Len(issues),
                           [issueMap |-> EmptyMap, inDegreeCount |-> EmptyMap])
      acc == CollectNodesAndEdges(issues, 1, Len(issues), commentsMap, index.issueMap,
               [nodes |-> <<>>, edges |-> <<>>, inDegreeCount |-> index.inDegreeCount])
  IN  [nodes |-> [k \in 1..Len(acc.nodes) |->
                    [acc.nodes[k] EXCEPT !.size = NodeSize(acc.inDegreeCount, acc.nodes[k])]],
       edges |-> acc.edges]

(***************************************************************************)
(* The GitHub API as the code reads it.  A repository is the list of the   *)
(* numbers of its open issues in listing order; the server cuts it into    *)
(* pages.  A header is the string the response carries, or Null.  The      *)
(* server counts the requests it still grants the caller and reports the   *)
(* count in x-ratelimit-remaining, unless it sends no such header.         *)
(***************************************************************************)
\* issues of a small repository, and the numbers they are drawn from
MaxRepo == 2
\* issues on a listing page of the server
PageSize == 2
\* listing pages of the largest repository
MaxPages == 61
\* a comment response is delivered only to one of the ReorderWindow tasks
\* that start at the oldest unfinished one
ReorderWindow == 2
\* the comments request of an issue numbered above MaxFailable succeeds
MaxFailable == 1
\* the small numbers of requests the server may still grant at the start
MaxQuota == 3

\* requestLimit of an unauthenticated caller
RequestLimit == 60
\* the size of commentsMap from which an unauthenticated caller skips comments
CommentBudget == 58

Mention(k) == <<"#">> \o NumberToString(k)

\* the issue object the API returns for issue k
ServerIssue(k) == [number |-> k, body |-> Mention(1)]

\* the comment list the API returns for issue k
ServerComments(k) == <<[body |-> Mention(k + 1)]>>

Min(a, b) == IF a <= b THEN a ELSE b

\* the body of listing page p
ListingPage(repo, p) ==
  LET first == (p - 1) * PageSize + 1
      last == Min(p * PageSize, Len(repo))
  IN  [k \in 1..Max(0, last - first + 1) |-> ServerIssue(repo[first + k - 1])]

\* the small repositories: up to a page and one issue more, a number may
\* recur (the listing shifts when an issue is opened between two requests)
SmallRepositories == UNION {[1..n -> 1..MaxRepo] : n \in 0..(PageSize + 1)}

LargeRepository == [k \in 1..(MaxPages * PageSize) |-> k]

Repositories == SmallRepositories \cup {LargeRepository}

\* the requests the server grants at the start: a few, or the 5,000 of a
\* token; <<>> is a server that sends no x-ratelimit-remaining header
Quotas == {<<>>} \cup {<<q>> : q \in 0..MaxQuota} \cup {<<5000>>}

\* x-ratelimit-remaining of the response to the used-th request
RemainingHeader(q, used) ==
  IF q = <<>> THEN Null ELSE NumberToString(Max(0, q[1] - used))

\* x-ratelimit-reset of a response, in seconds since the epoch, or no header
ResetHeaders == {Null, <<"7">>}

\* the responses the server may give to the request for listing page p;
\* "rejected" is a fetch that throws
ListingResponses(repo, p, remaining) ==
  {[kind |-> "response", ok |-> TRUE, status |-> 200, remaining |-> remaining,
    reset |-> Null, items |-> ListingPage(repo, p)]}
  \cup {[kind |-> "response", ok |-> FALSE, status |-> st, remaining |-> h,
         reset |-> r, items |-> <<>>] :
           st \in {403, 500}, h \in {Null, <<"0">>, <<"1">>}, r \in ResetHeaders}
  \cup {[kind |-> "rejected", ok |-> FALSE, status |-> 0, remaining |-> Null,
         reset |-> Null, items |-> <<>>]}

\* HeaderNumber as it would be were an absent header read as no limit
HeaderNumberAbsentAsUnlimited(h) == IF h = Null THEN 5000 ELSE ParseInt(h)

\* Number(response.headers.get(name)): Number(null) is 0
HeaderNumber(h) == IF h = Null THEN 0 ELSE ParseInt(h)

(***************************************************************************)
(* State.                                                                  *)
(***************************************************************************)
VARIABLES
  token,            \* whether the token field holds a token
  repoUrl,          \* React state repoUrl, the text of the URL field
  repository,       \* the repository the URL names, on the server
  quota,            \* the requests the server grants the caller at the start
  pc,               \* where handleSubmit stands
  page,             \* fetchAllIssues: page
  requestCount,     \* fetchAllIssues: requestCount
  allIssues,        \* fetchAllIssues: allIssues
  lastResponse,     \* the listing response handled last
  issuesData,       \* handleSubmit: issuesData
  tasks,            \* handleSubmit: the state of each comment promise
  commentsMap,      \* handleSubmit: commentsMap
  issuesState,      \* React state _issues
  graphData,        \* React state graphData
  loading,          \* React state loading
  hasShownWarning,  \* the ref hasShownWarning
  toasts,           \* the kinds of toast shown
  thrown,           \* the message of the error handleSubmit caught
  listingRequests,  \* HTTP requests sent for listing pages
  commentRequests,  \* HTTP requests sent for comments
  call              \* a call of a pure function: its input and result; or a
                    \* component studied on its own: its props and refs

vars == <<token, repoUrl, repository, quota, pc, page, requestCount, allIssues,
          lastResponse, issuesData, tasks, commentsMap, issuesState, graphData,
          loading, hasShownWarning, toasts, thrown, listingRequests,
          commentRequests, call>>

fetchVars == <<page, requestCount, allIssues, lastResponse, listingRequests>>

commentVars == <<issuesData, tasks, commentsMap, commentRequests>>

reactVars == <<issuesState, graphData, loading, hasShownWarning, toasts, thrown>>

inputVars == <<token, repoUrl, repository, quota>>

NoResponse == [kind |-> "none", ok |-> FALSE, status |-> 0, remaining |-> Null,
               reset |-> Null, items |-> <<>>]

\* no error has reached the catch of handleSubmit
NoError == <<>>

NoCall == [op |-> "none"]

EmptyGraph == [nodes |-> <<>>, edges |-> <<>>]

\* the component after its first render, before any submit
Mounted ==
  /\ pc = "idle"
  /\ page = 1
  /\ requestCount = 0
  /\ allIssues = <<>>
  /\ lastResponse = NoResponse
  /\ issuesData = <<>>
  /\ tasks = <<>>
  /\ commentsMap = EmptyMap
  /\ issuesState = <<>>
  /\ graphData = EmptyGraph
  /\ loading = FALSE
  /\ hasShownWarning = FALSE
  /\ toasts = {}
  /\ thrown = NoError
  /\ listingRequests = 0
  /\ commentRequests = 0

Init ==
  /\ token \in BOOLEAN
  /\ repoUrl \in Urls
  /\ repository \in Repositories
  /\ quota \in Quotas
  /\ Mounted
  /\ call = NoCall

(***************************************************************************)
(* fetchAllIssues and handleSubmit.  An action runs from one await to the  *)
(* next: the code between two awaits runs without interruption.            *)
(***************************************************************************)
\* LimitReached as it would be with > for >=
LimitReachedOneLate(tok, count) == ~tok /\ count > RequestLimit

\* requestCount >= requestLimit, where requestLimit = !token ? 60 : Infinity
LimitReached(tok, count) == ~tok /\ count >= RequestLimit

\* BufferReached as it would be with no request kept as a buffer
BufferReachedAtZero(h) == HeaderNumber(h) <= 0

\* rateLimitRemaining <= 1, read from the page's response
BufferReached(h) == HeaderNumber(h) <= 1

\* the guard of a comment callback: !token && commentsMap.size >= 58
SkipComments(tok, cm) == ~tok /\ Cardinality(DOMAIN cm) >= CommentBudget

\* ThrownError as it would be without the test of the status
ThrownErrorByHeaderOnly(resp) ==
  IF resp.kind = "rejected" THEN "error:network"
  ELSE IF resp.remaining = <<"0">> THEN "error:rate-limit"
  ELSE "error:failed"

\* the error a failed listing request throws
ThrownError(resp) ==
  IF resp.kind = "rejected" THEN "error:network"
  ELSE IF resp.status = 403 /\ resp.remaining = <<"0">> THEN "error:rate-limit"
  ELSE "error:failed"

\* new Date(Number(response.headers.get("x-ratelimit-reset")) * 1000), as
\* milliseconds since the epoch
ResetTime(resp) == HeaderNumber(resp.reset) * 1000

\* ErrorMessage as it would be were the error swallowed
ErrorMessageSwallowed(resp) == NoError

\* error.message of the error a failed listing request throws
ErrorMessage(resp) ==
  IF ThrownError(resp) = "error:network" THEN <<"Failed to fetch">>
  ELSE IF ThrownError(resp) = "error:rate-limit"
  THEN <<"GitHub API rate limit exceeded. Rate limit will reset at", ResetTime(resp)>>
  ELSE <<"Failed to fetch issues">>

\* fetchAllIssues returns `all`; handleSubmit stores it and maps the comment
\* callback over it.  Every callback runs up to its own await before any
\* response is handled, so each reads the commentsMap just created.
StartComments(all, shown) ==
  LET cm == EmptyMap
      started == [i \in 1..Len(all) |->
                    IF SkipComments(token, cm) THEN "skipped" ELSE "pending"]
  IN  /\ issuesState' = all
      /\ issuesData' = all
      /\ commentsMap' = cm
      /\ tasks' = started
      /\ commentRequests' = Cardinality({i \in 1..Len(all) : started[i] = "pending"})
      /\ toasts' = shown
      /\ pc' = "comments"

\* the head of the while loop, with the locals as given: the budget check,
\* then the next listing request or the return
LoopHead(all, pg, count, shown) ==
  /\ allIssues' = all
  /\ page' = pg
  /\ IF LimitReached(token, count)
     THEN /\ StartComments(all, shown \cup {"request-limit"})
          /\ requestCount' = count
          /\ listingRequests' = listingRequests
     ELSE /\ requestCount' = count + 1
          /\ listingRequests' = listingRequests + 1
          /\ toasts' = shown
          /\ pc' = "listing"
          /\ UNCHANGED <<commentVars, issuesState>>

\* SubmitDisabled as it would be were the button never disabled
SubmitNeverDisabled == FALSE

\* disabled={loading} of the submit button, the only submit control of the
\* form: while it is disabled the form sends no submit event
SubmitDisabled == loading

\* handleSubmit up to the first listing request
Submit ==
  /\ pc = "idle"
  /\ ~SubmitDisabled
  /\ IF ~validateGitHubUrl(repoUrl)
     THEN /\ toasts' = toasts \cup {"error:invalid-url"}
          /\ pc' = "rejected"
          /\ UNCHANGED <<fetchVars, commentVars, issuesState, loading, hasShownWarning>>
     ELSE /\ loading' = TRUE
          /\ hasShownWarning' = (hasShownWarning \/ ~token)
          /\ lastResponse' = NoResponse
          /\ LoopHead(<<>>, 1, 0,
               toasts \cup (IF ~token /\ ~hasShownWarning THEN {"no-token"} ELSE {}))
  /\ UNCHANGED <<inputVars, graphData, thrown, call>>

\* NextPage as it would be were a page skipped
NextPageSkipping(pg) == pg + 2

\* page++
NextPage(pg) == pg + 1

\* the response to the listing request in flight, up to the next await
ListingResponse ==
  /\ pc = "listing"
  /\ \E resp \in ListingResponses(repository, page,
                                    RemainingHeader(quota, listingRequests)) :
       /\ lastResponse' = resp
       /\ IF ~resp.ok
          THEN \* thrown out of fetchAllIssues, caught by handleSubmit
               /\ toasts' = toasts \cup {ThrownError(resp)}
               /\ thrown' = ErrorMessage(resp)
               /\ loading' = FALSE
               /\ pc' = "failed"
               /\ UNCHANGED <<page, requestCount, allIssues, listingRequests,
                              commentVars, issuesState>>
          ELSE IF Len(resp.items) = 0
          THEN /\ StartComments(allIssues, toasts)
               /\ UNCHANGED <<page, requestCount, allIssues, listingRequests, loading,
                              thrown>>
          ELSE LET all == allIssues \o resp.items
               IN  IF BufferReached(resp.remaining)
                   THEN /\ StartComments(all,
                             toasts \cup {"loading-issues", "approaching-limit"})
                        /\ allIssues' = all
                        /\ page' = NextPage(page)
                        /\ UNCHANGED <<requestCount, listingRequests, loading, thrown>>
                   ELSE /\ LoopHead(all, NextPage(page), requestCount,
                             toasts \cup {"loading-issues"})
                        /\ UNCHANGED <<loading, thrown>>
  /\ UNCHANGED <<inputVars, graphData, hasShownWarning, call>>

\* Unfinished as it would be were a callback done once its response is in
UnfinishedRequestOnly(i) == tasks[i] = "pending"

\* the promise of the i-th callback has not settled: its request or the
\* parsing of its response is awaited
Unfinished(i) == tasks[i] \in {"pending", "parsing"}

\* the network hands a response to one of the first ReorderWindow tasks
\* counted from the oldest unfinished one
Deliverable(i) ==
  /\ Unfinished(i)
  /\ \A j \in 1..(i - ReorderWindow) : ~Unfinished(j)

\* what the comments request of issue k may come to
CommentOutcomes(k) ==
  IF k <= MaxFailable THEN {"ok", "not-ok", "rejected"} ELSE {"ok"}

\* Throws as it would be were a non-success comments response an error
ThrowsUnlessOk(outcome) == outcome # "ok"

\* whether the comment callback throws: only when fetch itself rejects,
\* a response that is not ok is passed over by if (commentsResponse.ok)
Throws(outcome) == outcome = "rejected"

\* the response to the comments request of the i-th issue
CommentResponse(i) ==
  /\ pc = "comments"
  /\ tasks[i] = "pending"
  /\ Deliverable(i)
  /\ \E outcome \in CommentOutcomes(issuesData[i].number) :
       /\ tasks' = [tasks EXCEPT ![i] = IF outcome = "ok" THEN "parsing" ELSE outcome]
       /\ IF Throws(outcome)
          THEN \* Promise.all rejects; handleSubmit catches
               /\ toasts' = toasts \cup {"error:network"}
               /\ thrown' = <<"Failed to fetch">>
               /\ loading' = FALSE
               /\ pc' = "failed"
          ELSE UNCHANGED <<toasts, thrown, loading, pc>>
  /\ UNCHANGED <<inputVars, fetchVars, issuesData, commentsMap, commentRequests,
                 issuesState, graphData, hasShownWarning, call>>

\* the body of an ok comments response is parsed and stored
CommentParsed(i) ==
  /\ pc = "comments"
  /\ tasks[i] = "parsing"
  /\ Deliverable(i)
  /\ commentsMap' = MapSet(commentsMap, issuesData[i].number,
                           ServerComments(issuesData[i].number))
  /\ tasks' = [tasks EXCEPT ![i] = "stored"]
  /\ UNCHANGED <<inputVars, fetchVars, issuesData, commentRequests, reactVars, pc, call>>

\* JoinReady as it would be without the await of Promise.all
JoinWithoutWaiting == pc = "comments"

\* JoinReady as it would be were a partial listing to end the build
JoinUnlessPartial ==
  /\ pc = "comments"
  /\ \A i \in 1..Len(tasks) : ~Unfinished(i)
  /\ toasts \cap {"request-limit", "approaching-limit"} = {}

\* JoinReady as it would be were a response that is not ok never settled
JoinOnlyIfAllStored ==
  /\ pc = "comments"
  /\ \A i \in 1..Len(tasks) : tasks[i] \in {"stored", "skipped"}

\* every comment promise has settled, none by throwing
JoinReady ==
  /\ pc = "comments"
  /\ \A i \in 1..Len(tasks) : ~Unfinished(i)

\* Promise.all resolves: the graph is built and published
Join ==
  /\ JoinReady
  /\ graphData' = buildGraphData(issuesData, commentsMap)
  /\ toasts' = toasts \cup {"success"}
  /\ loading' = FALSE
  /\ pc' = "published"
  /\ UNCHANGED <<inputVars, fetchVars, commentVars, issuesState, hasShownWarning,
                 thrown, call>>

Next ==
  \/ Submit
  \/ ListingResponse
  \/ \E i \in 1..Len(tasks) : CommentResponse(i)
  \/ \E i \in 1..Len(tasks) : CommentParsed(i)
  \/ Join

Spec == Init /\ [][Next]_vars


(***************************************************************************)
(* Several builds in a row: handleSubmit has returned, its locals are gone *)
(* and its toasts have expired; the React state stays, the user may edit   *)
(* the form, and the next submit starts a new build.                       *)
(***************************************************************************)
EditForm ==
  /\ pc \in {"published", "failed", "rejected"}
  /\ pc' = "idle"
  /\ token' \in BOOLEAN
  /\ repoUrl' \in EditedUrls
  /\ page' = 1
  /\ requestCount' = 0
  /\ allIssues' = <<>>
  /\ lastResponse' = NoResponse
  /\ issuesData' = <<>>
  /\ tasks' = <<>>
  /\ commentsMap' = EmptyMap
  /\ toasts' = {}
  /\ thrown' = NoError
  /\ listingRequests' = 0
  /\ commentRequests' = 0
  /\ UNCHANGED <<repository, quota, issuesState, graphData, loading,
                 hasShownWarning, call>>

AgainInit ==
  /\ Init
  /\ repository \in SmallRepositories

AgainNext == Next \/ EditForm

SpecAgain == AgainInit /\ [][AgainNext]_vars

\* Every request is answered or rejected in the end and the event loop
\* runs every continuation that is ready.  The last conjunct is weak
\* fairness of Join, with JoinReady written for ENABLED <<Join>>_vars.
Fairness ==
  /\ WF_vars(Submit)
  /\ WF_vars(ListingResponse)
  /\ WF_vars(\E i \in 1..Len(tasks) : CommentResponse(i))
  /\ WF_vars(\E i \in 1..Len(tasks) : CommentParsed(i))
  /\ ([]<>(~JoinReady) \/ []<><<Join>>_vars)

\* one build of a small repository, fairly scheduled
SpecLive == AgainInit /\ [][Next]_vars /\ Fairness

PartialInit ==
  /\ Init
  /\ repository = LargeRepository
  /\ token = FALSE
  /\ repoUrl = ValidUrl

\* one build of the large repository by a caller without a token, fairly
\* scheduled
SpecPartial == PartialInit /\ [][Next]_vars /\ Fairness

AnonymousInit ==
  /\ Init
  /\ token = FALSE
  /\ repoUrl = ValidUrl

\* one build of any repository by a caller without a token, fairly
\* scheduled
SpecAnonymous == AnonymousInit /\ [][Next]_vars /\ Fairness

(***************************************************************************)
(* buildGraphData on its own: a call with inputs drawn from bounded sets.  *)
(***************************************************************************)
BuildBodies == {Null} \cup {Mention(k) : k \in MentionedNumbers}

BuildIssues == [number : 1..MaxIssues, body : BuildBodies]

BuildIssueLists == UNION {[1..n -> BuildIssues] : n \in 0..MaxIssues}

BuildComments == [body : {Mention(k) : k \in MentionedNumbers}]

\* one comment, or the same comment twice
BuildCommentLists == {[k \in 1..n |-> c] : n \in 1..2, c \in BuildComments}

\* comments for at most one issue number
BuildCommentsMaps ==
  {EmptyMap} \cup {[x \in {k} |-> cs] : k \in 1..MaxIssues, cs \in BuildCommentLists}

BuildInit ==
  /\ token = FALSE
  /\ repoUrl = ValidUrl
  /\ repository = <<>>
  /\ quota = <<>>
  /\ Mounted
  /\ call \in [op : {"buildGraphData"}, issues : BuildIssueLists,
               commentsMap : BuildCommentsMaps, returned : {FALSE},
               result : {EmptyGraph}]

\* the call returns
RunBuildGraphData ==
  /\ call.op = "buildGraphData"
  /\ ~call.returned
  /\ call' = [call EXCEPT !.returned = TRUE,
                          !.result = buildGraphData(call.issues, call.commentsMap)]
  /\ UNCHANGED <<inputVars, pc, fetchVars, commentVars, reactVars>>

BuildNext == RunBuildGraphData

SpecBuild == BuildInit /\ [][BuildNext]_vars

(***************************************************************************)
(* findIssueReferences on its own: a call on a text drawn from a bounded   *)
(* set.                                                                    *)
(***************************************************************************)
\* the longest text handed to findIssueReferences
MaxText == 4

\* the characters of a text: the '#', digits, and a character that is neither
TextChars == {"#", "0", "1", "2", "a"}

Texts == UNION {[1..n -> TextChars] : n \in 0..MaxText}

RefsInit ==
  /\ token = FALSE
  /\ repoUrl = ValidUrl
  /\ repository = <<>>
  /\ quota = <<>>
  /\ Mounted
  /\ call \in [op : {"findIssueReferences"}, text : Texts, returned : {FALSE},
               result : {<<>>}]

\* the call returns
RunFindIssueReferences ==
  /\ call.op = "findIssueReferences"
  /\ ~call.returned
  /\ call' = [call EXCEPT !.returned = TRUE,
                          !.result = findIssueReferences(call.text)]
  /\ UNCHANGED <<inputVars, pc, fetchVars, commentVars, reactVars>>

RefsNext == RunFindIssueReferences

SpecRefs == RefsInit /\ [][RefsNext]_vars

(***************************************************************************)
(* buildGraphData on issues whose texts are mostly free of mentions: the   *)
(* k-th issue of the list has number k.                                    *)
(***************************************************************************)
\* texts with no #<digits> in them, and one with a mention
PlainTexts ==
  {<<>>, <<"#">>, <<"#", "a">>, <<"1", "#">>, <<"a", "1">>, <<"#", "#">>, Mention(1)}

PlainIssueLists ==
  UNION {{[k \in 1..n |-> [number |-> k, body |-> bodies[k]]] :
            bodies \in [1..n -> PlainTexts \cup {Null}]} : n \in 0..MaxIssues}

\* no comments, or one comment on the first issue
PlainCommentsMaps ==
  {EmptyMap} \cup {[x \in {1} |-> <<[body |-> text]>>] : text \in PlainTexts}

PlainInit ==
  /\ token = FALSE
  /\ repoUrl = ValidUrl
  /\ repository = <<>>
  /\ quota = <<>>
  /\ Mounted
  /\ call \in [op : {"buildGraphData"}, issues : PlainIssueLists,
               commentsMap : PlainCommentsMaps, returned : {FALSE},
               result : {EmptyGraph}]

SpecPlain == PlainInit /\ [][BuildNext]_vars

(***************************************************************************)
(* Calls on texts that are empty or absent.  A call either returns or      *)
(* throws: text.match of a text that is null is a TypeError, which nothing *)
(* in findIssueReferences or buildGraphData catches.                       *)
(***************************************************************************)
\* text.match(...) at line 78 throws: text is null
findIssueReferencesThrows(text) == text = Null

\* buildGraphData throws: the flatMap of line 124 reaches a comment without
\* a body, in the comment list that the mapping holds for an issue of the
\* list (line 122 hands issue.body || "" so an absent issue body is a text)
buildGraphDataThrows(issues, comments) ==
  \E i \in DOMAIN issues :
    LET list == MapGetOr(comments, issues[i].number, <<>>)
    IN  \E c \in DOMAIN list : findIssueReferencesThrows(list[c].body)

\* a body: absent, empty, or a mention
AbsentOrTexts == {Null, <<>>, Mention(2)}

\* the k-th issue has number k
AbsentIssueLists ==
  UNION {{[k \in 1..n |-> [number |-> k, body |-> bodies[k]]] :
            bodies \in [1..n -> AbsentOrTexts]} : n \in 0..MaxIssues}

\* no comments, or one or two comments on one issue
AbsentCommentsMaps ==
  {EmptyMap} \cup
  {[x \in {k} |-> [c \in 1..n |-> [body |-> bodies[c]]]] :
     k \in 1..MaxIssues, n \in 1..2, bodies \in [1..2 -> AbsentOrTexts]}

AbsentInit ==
  /\ token = FALSE
  /\ repoUrl = ValidUrl
  /\ repository = <<>>
  /\ quota = <<>>
  /\ Mounted
  /\ call \in [op : {"buildGraphData"}, issues : AbsentIssueLists,
               commentsMap : AbsentCommentsMaps, returned : {FALSE}, threw : {FALSE},
               result : {EmptyGraph}]
              \cup [op : {"findIssueReferences"}, text : AbsentOrTexts \cup {Mention(1)},
                    returned : {FALSE}, threw : {FALSE}, result : {<<>>}]

\* the call of findIssueReferences returns or throws
CallFindIssueReferences ==
  /\ call.op = "findIssueReferences"
  /\ ~call.returned
  /\ ~call.threw
  /\ IF findIssueReferencesThrows(call.text)
     THEN call' = [call EXCEPT !.threw = TRUE]
     ELSE call' = [call EXCEPT !.returned = TRUE,
                               !.result = findIssueReferences(call.text)]
  /\ UNCHANGED <<inputVars, pc, fetchVars, commentVars, reactVars>>

\* the call of buildGraphData returns or throws
CallBuildGraphData ==
  /\ call.op = "buildGraphData"
  /\ ~call.returned
  /\ ~call.threw
  /\ IF buildGraphDataThrows(call.issues, call.commentsMap)
     THEN call' = [call EXCEPT !.threw = TRUE]
     ELSE call' = [call EXCEPT !.returned = TRUE,
                               !.result = buildGraphData(call.issues, call.commentsMap)]
  /\ UNCHANGED <<inputVars, pc, fetchVars, commentVars, reactVars>>

AbsentNext == CallFindIssueReferences \/ CallBuildGraphData

SpecAbsent == AbsentInit /\ [][AbsentNext]_vars

(***************************************************************************)
(* buildGraphData of src/unnamed/part_001, the variant of the builder that *)
(* counts the incoming references before it creates the nodes.             *)
(***************************************************************************)
\* first loop: issueMap.set(issue.number, issue) for issues[1..n]
RECURSIVE LookupOfIssues(_, _)
LookupOfIssues(issues, n) ==
  IF n = 0 THEN EmptyMap
  ELSE MapSet(LookupOfIssues(issues, n - 1), issues[n].number, issues[n])

\* allRefs.forEach of the second loop: every reference is counted, with no
\* test of the number
RECURSIVE CountReferences(_, _)
CountReferences(refs, counts) ==
  IF refs = <<>> THEN counts
  ELSE LET refId == NumberToString(Head(refs))
       IN  CountReferences(Tail(refs), MapSet(counts, refId, MapGetOr(counts, refId, 0) + 1))

\* second loop: incomingReferenceCounts after issues[1..n]
RECURSIVE IncomingReferenceCounts(_, _, _)
IncomingReferenceCounts(issues, n, comments) ==
  IF n = 0 THEN EmptyMap
  ELSE CountReferences(AllRefs(issues[n], comments),
                       IncomingReferenceCounts(issues, n - 1, comments))

\* third loop: the node of an issue, its size set from the counts
SizedNode(issue, counts) ==
  [NewNode(issue) EXCEPT
     !.size = Max(1, MapGetOr(counts, NumberToString(issue.number), 0) + 1)]

\* allRefs.forEach of the fourth loop: the edges of one issue
RECURSIVE EdgesOfIssue(_, _, _)
EdgesOfIssue(refs, issue, issueMap) ==
  IF refs = <<>> THEN <<>>
  ELSE LET refNumber == Head(refs)
           issueId == NumberToString(issue.number)
           refId == NumberToString(refNumber)
           rest == EdgesOfIssue(Tail(refs), issue, issueMap)
       IN  IF MapHas(issueMap, refNumber) /\ refNumber # issue.number
           THEN <<[id |-> issueId \o <<"-">> \o refId, source |-> issueId,
                   target |-> refId]>> \o rest
           ELSE rest

buildGraphDataCountsFirst(issues, comments) ==
  LET issueMap == LookupOfIssues(issues, Len(issues))
      counts == IncomingReferenceCounts(issues, Len(issues), comments)
  IN  [nodes |-> [k \in 1..Len(issues) |-> SizedNode(issues[k], counts)],
       edges |-> Flatten([k \in 1..Len(issues) |->
                   EdgesOfIssue(AllRefs(issues[k], comments), issues[k], issueMap)])]

\* no comments, or a comment on the first issue
CountsCommentsMaps == {EmptyMap, [x \in {1} |-> <<[body |-> Mention(2)]>>]}

CountsInit ==
  /\ token = FALSE
  /\ repoUrl = ValidUrl
  /\ repository = <<>>
  /\ quota = <<>>
  /\ Mounted
  /\ call \in [op : {"buildGraphData of part_001"}, issues : BuildIssueLists,
               commentsMap : CountsCommentsMaps, returned : {FALSE},
               result : {EmptyGraph}]

\* the call returns
RunBuildGraphDataCountsFirst ==
  /\ call.op = "buildGraphData of part_001"
  /\ ~call.returned
  /\ call' = [call EXCEPT !.returned = TRUE,
                          !.result = buildGraphDataCountsFirst(call.issues,
                                                               call.commentsMap)]
  /\ UNCHANGED <<inputVars, pc, fetchVars, commentVars, reactVars>>

CountsNext == RunBuildGraphDataCountsFirst

SpecCounts == CountsInit /\ [][CountsNext]_vars

(***************************************************************************)
(* LoadGraph of src/src/components/GraphVisualization.tsx on its own: the  *)
(* component is rendered with props drawn from a bounded set and its first *)
(* effect runs.  `call` holds the props, the ref prevGraphDataRef and the  *)
(* graph handed to the renderer.                                           *)
(***************************************************************************)
\* renders of the component after its mount
MaxRenders == 3

\* JSON.stringify of a string: the texts of the model hold no character
\* that is escaped
JSONString(text) == <<"\"">> \o text \o <<"\"">>

\* JSON.stringify of issue.body: a string, or null
JSONBody(body) == IF body = Null THEN <<"null">> ELSE JSONString(body)

\* JSON.stringify of a node, its keys in the order buildGraphData wrote them
JSONNode(node) ==
  <<"{\"id\":">> \o JSONString(node.id)
    \o <<",\"label\":">> \o JSONString(node.label)
    \o <<",\"size\":">> \o NumberToString(node.size)
    \o <<",\"attributes\":{\"body\":">> \o JSONBody(node.body)
    \o <<",\"number\":">> \o NumberToString(node.number) \o <<"}}">>

JSONEdge(edge) ==
  <<"{\"id\":">> \o JSONString(edge.id)
    \o <<",\"source\":">> \o JSONString(edge.source)
    \o <<",\"target\":">> \o JSONString(edge.target) \o <<"}">>

\* the items of an array, separated by commas
RECURSIVE JSONItems(_)
JSONItems(items) ==
  IF items = <<>> THEN <<>>
  ELSE IF Len(items) = 1 THEN items[1]
  ELSE items[1] \o <<",">> \o JSONItems(Tail(items))

\* JSON.stringify(graphData)
JSONStringify(graph) ==
  <<"{\"nodes\":[">>
    \o JSONItems([k \in DOMAIN graph.nodes |-> JSONNode(graph.nodes[k])])
    \o <<"],\"edges\":[">>
    \o JSONItems([k \in DOMAIN graph.edges |-> JSONEdge(graph.edges[k])])
    \o <<"]}">>

\* graph.addNode throws: a node of that id is in the graph already
addNodeThrows(graph) ==
  \E j, k \in DOMAIN graph.nodes : j < k /\ graph.nodes[j].id = graph.nodes[k].id

\* graph.addDirectedEdge throws: an end of the edge is no node of the
\* graph, or the graph, which is not a multigraph, has an edge from that
\* source to that target already
addDirectedEdgeThrows(graph) ==
  \/ \E e \in DOMAIN graph.edges :
       \/ graph.edges[e].source \notin {graph.nodes[n].id : n \in DOMAIN graph.nodes}
       \/ graph.edges[e].target \notin {graph.nodes[n].id : n \in DOMAIN graph.nodes}
  \/ \E d, e \in DOMAIN graph.edges :
       /\ d < e
       /\ graph.edges[d].source = graph.edges[e].source
       /\ graph.edges[d].target = graph.edges[e].target

\* the DirectedGraph of lines 72 to 94
DirectedGraphOf(graph, dark) ==
  [nodes |-> {[id |-> graph.nodes[n].id, label |-> graph.nodes[n].label,
               size |-> graph.nodes[n].size * 4] : n \in DOMAIN graph.nodes},
   edges |-> {[source |-> graph.edges[e].source, target |-> graph.edges[e].target,
               color |-> IF dark THEN "#4B5563" ELSE "#666"] : e \in DOMAIN graph.edges}]

\* the renderer before loadGraph was ever called
NoDirectedGraph == [nodes |-> {}, edges |-> {}]

\* the issue lists whose graphs the component is given: a number may recur
LoadIssueLists ==
  UNION {[1..n -> [number : 1..2, body : {Null, Mention(1)}]] : n \in 0..2}

\* the values of the prop graphData
LoadGraphs == {buildGraphData(issues, EmptyMap) : issues \in LoadIssueLists}

\* the effect of lines 66 to 100 with the props as given
LoadGraphEffect(graph, dark) ==
  LET currentGraphDataStr == JSONStringify(graph)
  IN  IF currentGraphDataStr = call.prevGraphDataRef
      THEN [call EXCEPT !.graphData = graph, !.darkMode = dark]
      ELSE IF addNodeThrows(graph) \/ addDirectedEdgeThrows(graph)
      THEN [call EXCEPT !.graphData = graph, !.darkMode = dark, !.threw = TRUE]
      ELSE [call EXCEPT !.graphData = graph, !.darkMode = dark,
                        !.loaded = DirectedGraphOf(graph, dark),
                        !.loads = @ + 1,
                        !.prevGraphDataRef = currentGraphDataStr]

LoadInit ==
  /\ token = FALSE
  /\ repoUrl = ValidUrl
  /\ repository = <<>>
  /\ quota = <<>>
  /\ Mounted
  /\ call \in [op : {"LoadGraph"}, graphData : {EmptyGraph}, darkMode : BOOLEAN,
               mounted : {FALSE}, renders : {0}, objects : {1}, threw : {FALSE},
               prevGraphDataRef : {<<>>}, loaded : {NoDirectedGraph}, loads : {0}]

\* the component mounts and the effect runs for the first time
MountLoadGraph ==
  /\ call.op = "LoadGraph"
  /\ ~call.mounted
  /\ call' = [LoadGraphEffect(call.graphData, call.darkMode) EXCEPT !.mounted = TRUE]
  /\ UNCHANGED <<inputVars, pc, fetchVars, commentVars, reactVars>>

\* the parent renders the component again and a dependency of the effect
\* has changed: graphData is another object (setGraphData was called), or
\* darkMode has another value, or both
RenderLoadGraph ==
  /\ call.op = "LoadGraph"
  /\ call.mounted
  /\ ~call.threw
  /\ call.renders < MaxRenders
  /\ \E graph \in LoadGraphs, another \in BOOLEAN, dark \in BOOLEAN :
       /\ another \/ dark # call.darkMode
       /\ ~another => graph = call.graphData
       /\ call' = [LoadGraphEffect(graph, dark) EXCEPT
                     !.renders = @ + 1,
                     !.objects = IF another THEN @ + 1 ELSE @]
  /\ UNCHANGED <<inputVars, pc, fetchVars, commentVars, reactVars>>

LoadNext == MountLoadGraph \/ RenderLoadGraph

SpecLoad == LoadInit /\ [][LoadNext]_vars

(***************************************************************************)
(* Properties of buildGraphData, checked under SpecBuild.                  *)
(***************************************************************************)
Returned == call.op = "buildGraphData" /\ call.returned

\* the numbers of the issues of a list
NumbersOf(issues) == {issues[i].number : i \in DOMAIN issues}

\* the numbers t such that #t stands in the text: a '#', then a run of
\* digits that no digit follows, read as a decimal number
MentionsIn(text) ==
  {ParseInt(SubSeq(text, i + 1, j)) :
     <<i, j>> \in {<<i, j>> \in (DOMAIN text) \X (DOMAIN text) :
                     /\ text[i] = "#"
                     /\ i < j
                     /\ \A k \in (i + 1)..j : IsDigit(text[k])
                     /\ (j = Len(text) \/ ~IsDigit(text[j + 1]))}}

\* the numbers mentioned by the i-th issue of a list: in its body, or in
\* the body of a comment mapped to its number
MentionedBy(issues, comments, i) ==
  MentionsIn(BodyOrEmpty(issues[i].body))
  \cup UNION {MentionsIn(MapGetOr(comments, issues[i].number, <<>>)[c].body) :
               c \in DOMAIN MapGetOr(comments, issues[i].number, <<>>)}

\* the (source, target) pairs of a list of edges
PairsOf(edges) == {<<edges[e].source, edges[e].target>> : e \in DOMAIN edges}

\* C3: every edge of the returned graph has as target the number of an
\* issue of the input list, and a target that differs from its source: no
\* self-loop, and no edge to a number that is absent from the list.
EdgesTargetOtherIssuesOfList ==
  Returned =>
    \A e \in DOMAIN call.result.edges :
      LET edge == call.result.edges[e]
      IN  /\ \E n \in NumbersOf(call.issues) : edge.target = NumberToString(n)
          /\ \E n \in NumbersOf(call.issues) : edge.source = NumberToString(n)
          /\ edge.target # edge.source

\* a returned call whose input holds an issue that mentions itself and an
\* issue that mentions a number absent from the list, and that has an edge
SelfAndAbsentMentionBuilt ==
  /\ Returned
  /\ \E i \in DOMAIN call.issues :
       call.issues[i].number \in MentionedBy(call.issues, call.commentsMap, i)
  /\ \E i \in DOMAIN call.issues :
       MentionedBy(call.issues, call.commentsMap, i) \ NumbersOf(call.issues) # {}
  /\ call.result.edges # <<>>

\* C4: the edges of the returned graph are exactly the pairs (s, t) where
\* s is an issue of the list, #t stands in the body of s or of a comment
\* mapped to s, t is the number of an issue of the list, and t differs
\* from s.
EdgesAreExactlyTheMentions ==
  Returned =>
    PairsOf(call.result.edges) =
      {<<NumberToString(call.issues[i].number), NumberToString(t)>> :
         <<i, t>> \in {<<i, t>> \in (DOMAIN call.issues) \X NumbersOf(call.issues) :
                         /\ t \in MentionedBy(call.issues, call.commentsMap, i)
                         /\ t # call.issues[i].number}}

\* a returned call in which an edge comes from a comment alone: the body
\* of the source does not mention the target
EdgeFromCommentBuilt ==
  /\ Returned
  /\ \E i \in DOMAIN call.issues :
       \E t \in NumbersOf(call.issues) \ {call.issues[i].number} :
         /\ t \notin MentionsIn(BodyOrEmpty(call.issues[i].body))
         /\ t \in MentionedBy(call.issues, call.commentsMap, i)
         /\ <<NumberToString(call.issues[i].number), NumberToString(t)>>
              \in PairsOf(call.result.edges)

\* C5: the size of every node of the returned graph is 1 plus the number
\* of returned edges whose target is the node's id.
SizeIsOnePlusInDegree ==
  Returned =>
    \A k \in DOMAIN call.result.nodes :
      call.result.nodes[k].size =
        1 + Cardinality({e \in DOMAIN call.result.edges :
                           call.result.edges[e].target = call.result.nodes[k].id})

\* issues 1, 2 and 3, where 2 and 3 mention 1: node 1 has size 3, nodes 2
\* and 3 have size 1
TwoIssuesMentionAThird ==
  /\ Returned
  /\ Len(call.issues) = 3
  /\ NumbersOf(call.issues) = {1, 2, 3}
  /\ PairsOf(call.result.edges) = {<<<<"2">>, <<"1">>>>, <<<<"3">>, <<"1">>>>}
  /\ \A k \in DOMAIN call.result.nodes :
       call.result.nodes[k].size = IF call.result.nodes[k].id = <<"1">> THEN 3 ELSE 1

\* C6: the returned graph has exactly one node per distinct issue number
\* of the list: the node ids are the issue numbers, and no id occurs twice.
OneNodePerIssueNumber ==
  Returned =>
    /\ {call.result.nodes[k].id : k \in DOMAIN call.result.nodes}
         = {NumberToString(n) : n \in NumbersOf(call.issues)}
    /\ \A j, k \in DOMAIN call.result.nodes :
         call.result.nodes[j].id = call.result.nodes[k].id => j = k

\* C7: the returned edge list holds at most one edge per (source, target)
\* pair.
OneEdgePerPair ==
  Returned =>
    \A d, e \in DOMAIN call.result.edges :
      (/\ call.result.edges[d].source = call.result.edges[e].source
       /\ call.result.edges[d].target = call.result.edges[e].target) => d = e

(***************************************************************************)
(* Properties of the fetch pipeline, checked under Spec.                   *)
(***************************************************************************)
PartialSignals == {"request-limit", "approaching-limit"}

ErrorToasts == {"error:network", "error:rate-limit", "error:failed", "error:invalid-url"}

\* the listing response handled by the step
PageArrives == pc = "listing" /\ lastResponse'.kind = "response" /\ lastResponse'.ok

\* the step ends fetchAllIssues and hands its issues to handleSubmit
ReturnsIssues(all) ==
  /\ pc' = "comments"
  /\ listingRequests' = listingRequests
  /\ issuesData' = all
  /\ toasts' \cap ErrorToasts = {}

\* the step sends the request for the next listing page
RequestsNextPage ==
  /\ pc' = "listing"
  /\ listingRequests' = listingRequests + 1
  /\ page' = page + 1

\* C1: without a token, the listing requests and the comment requests of
\* a build together never exceed 60.
TotalRequestsWithinLimit ==
  ~token => listingRequests + commentRequests <= RequestLimit

\* C2: without a token, at most 58 comment requests are sent, and the
\* issues past them are skipped.
CommentRequestsWithinBudget ==
  ~token =>
    /\ commentRequests <= CommentBudget
    /\ \A i \in DOMAIN tasks : i > CommentBudget => tasks[i] = "skipped"

\* C8: once a listing page has come back empty, fetchAllIssues has returned
\* the issues gathered so far, and no issue number occurs twice in them.
EmptyPageReturnsDistinctIssues ==
  (/\ pc \in {"comments", "published"}
   /\ lastResponse.ok
   /\ lastResponse.items = <<>>) =>
    /\ issuesData = allIssues
    /\ \A i, j \in DOMAIN issuesData :
         issuesData[i].number = issuesData[j].number => i = j

\* C9: without a token at most 60 listing requests are sent; when the 60th
\* page has come back with issues, fetchAllIssues stops, a partial-result
\* signal is shown (the request-limit one unless the page's remaining
\* count already stopped it) and the issues gathered so far are returned
\* with no error; with a token the count of requests stops nothing.
ListingStopsAtRequestLimit ==
  /\ [](~token => listingRequests <= RequestLimit)
  /\ []("request-limit" \in toasts => ~token /\ listingRequests = RequestLimit)
  /\ [][(/\ PageArrives
          /\ ~token
          /\ listingRequests = RequestLimit
          /\ lastResponse'.items # <<>>) =>
           (/\ ReturnsIssues(allIssues \o lastResponse'.items)
            /\ toasts' \cap PartialSignals # {}
            /\ (HeaderNumber(lastResponse'.remaining) > 1
                  => "request-limit" \in toasts'))]_vars
  /\ [][(/\ PageArrives
          /\ token
          /\ lastResponse'.items # <<>>
          /\ HeaderNumber(lastResponse'.remaining) > 1) => RequestsNextPage]_vars

\* a build without a token that the request limit has stopped
StoppedByRequestLimit ==
  /\ ~token
  /\ pc = "comments"
  /\ listingRequests = RequestLimit
  /\ "request-limit" \in toasts
  /\ Len(issuesData) >= RequestLimit

\* the number an x-ratelimit-remaining header reports
Reported(h) == ParseInt(h)

\* C10 as it stands: after every successful listing page, a reported
\* remaining count of 1 or less stops the listing with a partial-result
\* signal and the issues gathered so far, that page included, are
\* returned; a count above 1 lets the pagination go on.
EveryPageStopsOrContinuesByHeader ==
  [][(PageArrives /\ lastResponse'.remaining # Null) =>
       IF Reported(lastResponse'.remaining) <= 1
       THEN /\ ReturnsIssues(allIssues \o lastResponse'.items)
            /\ toasts' \cap PartialSignals # {}
       ELSE RequestsNextPage]_vars

\* C10, amended: after a successful listing page that holds issues, a
\* remaining count that is reported as 1 or less, or not reported at all,
\* stops the listing with the approaching-limit signal and the issues
\* gathered so far, that page included, are returned; with a count above 1
\* the next page is requested, unless the caller has no token and has sent
\* 60 requests, which stops the listing with the request-limit signal.  An
\* empty page ends the listing with no signal, whatever the count.
PageWithIssuesStopsOrContinuesByHeader ==
  [][PageArrives =>
       IF lastResponse'.items = <<>>
       THEN /\ ReturnsIssues(allIssues)
            /\ toasts' = toasts
       ELSE IF \/ lastResponse'.remaining = Null
               \/ Reported(lastResponse'.remaining) <= 1
       THEN /\ ReturnsIssues(allIssues \o lastResponse'.items)
            /\ "approaching-limit" \in toasts'
       ELSE IF ~token /\ listingRequests = RequestLimit
       THEN /\ ReturnsIssues(allIssues \o lastResponse'.items)
            /\ "request-limit" \in toasts'
       ELSE /\ RequestsNextPage
            /\ allIssues' = allIssues \o lastResponse'.items
            /\ toasts' \cap PartialSignals = {}]_vars

\* a listing that a page reporting exactly 1 remaining request has stopped
\* after a page that reported more
StoppedByRemainingOne ==
  /\ pc = "comments"
  /\ lastResponse.ok
  /\ lastResponse.items # <<>>
  /\ lastResponse.remaining = <<"1">>
  /\ listingRequests = 2
  /\ "approaching-limit" \in toasts
  /\ Len(issuesData) > Len(lastResponse.items)

\* the listing response handled by the step is a non-success response
FailureArrives ==
  pc = "listing" /\ lastResponse'.kind = "response" /\ ~lastResponse'.ok

\* C11: a non-success listing response with status 403 and
\* x-ratelimit-remaining equal to 0 raises the rate-limit error, whose
\* message carries the time x-ratelimit-reset gives in epoch seconds; every
\* other non-success response raises 'Failed to fetch issues'; the two
\* messages differ.
ListingFailureIsClassified ==
  [][FailureArrives =>
       LET r == lastResponse'
       IN  IF r.status = 403 /\ r.remaining # Null /\ Reported(r.remaining) = 0
           THEN /\ thrown' = <<"GitHub API rate limit exceeded. Rate limit will reset at",
                               (IF r.reset = Null THEN 0 ELSE Reported(r.reset)) * 1000>>
                /\ "error:rate-limit" \in toasts'
                /\ "error:failed" \notin toasts'
           ELSE /\ thrown' = <<"Failed to fetch issues">>
                /\ "error:failed" \in toasts'
                /\ "error:rate-limit" \notin toasts']_vars

\* a build that a 403 with no request remaining has ended, the reset time
\* of the response in the message
RateLimitErrorRaised ==
  /\ pc = "failed"
  /\ lastResponse.status = 403
  /\ lastResponse.remaining = <<"0">>
  /\ lastResponse.reset = <<"7">>
  /\ Len(thrown) = 2
  /\ thrown[2] = 7000

(***************************************************************************)
(* Properties of builds that follow one another, checked under SpecAgain.  *)
(***************************************************************************)
ListingErrors == {"error:rate-limit", "error:failed"}

\* C12: a non-success listing response ends the build at once: the step
\* sends no request, the builder does not run, the graph published before
\* stays, and the error is shown; the failed build has sent no comment
\* request and does nothing more.
ListingFailureStopsBuild ==
  /\ [][FailureArrives =>
          /\ pc' = "failed"
          /\ listingRequests' = listingRequests
          /\ commentRequests' = commentRequests
          /\ graphData' = graphData
          /\ issuesState' = issuesState
          /\ toasts' \cap ListingErrors # {}
          /\ thrown' # NoError
          /\ "success" \notin toasts']_vars
  /\ []((pc = "failed" /\ lastResponse.kind = "response" /\ ~lastResponse.ok) =>
          /\ commentRequests = 0
          /\ tasks = <<>>
          /\ ~loading)
  /\ [][pc = "failed" => pc' = "idle" /\ graphData' = graphData]_vars

\* the second page of a build fails while the graph of an earlier build is
\* on display
ListingFailedOverPublishedGraph ==
  /\ pc = "failed"
  /\ lastResponse.kind = "response"
  /\ ~lastResponse.ok
  /\ page = 2
  /\ graphData # EmptyGraph
  /\ toasts \cap ListingErrors # {}

(***************************************************************************)
(* Properties of the comment phase, checked under SpecLive.                *)
(***************************************************************************)
TaskNumber(i) == issuesData[i].number

NodeIds(graph) == {graph.nodes[n].id : n \in DOMAIN graph.nodes}

SomeTask(state) == \E i \in DOMAIN tasks : tasks[i] = state

\* the numbers of the issues whose comments response has been stored
StoredNumbers == {TaskNumber(i) : i \in {j \in DOMAIN tasks : tasks[j] = "stored"}}

\* C13: a comments response that is not ok raises nothing and stores
\* nothing; the requests of the other issues stay in flight and what they
\* return is used; the build goes on to publish a graph in which the issue
\* concerned is a node.
FailedCommentsAreTolerated ==
  /\ [][(pc = "comments" /\ pc' = "failed") =>
          \E i \in DOMAIN tasks : tasks[i] = "pending" /\ tasks'[i] = "rejected"]_vars
  /\ [][(pc = "comments" /\ SomeTask("not-ok")) =>
          \A j \in DOMAIN tasks :
            tasks[j] = "pending" => tasks'[j] \in {"pending", "parsing", "not-ok", "rejected"}]_vars
  /\ [](pc \in {"comments", "published"} =>
          /\ \A i \in DOMAIN tasks :
               (tasks[i] = "not-ok" /\ TaskNumber(i) \notin StoredNumbers)
                 => TaskNumber(i) \notin DOMAIN commentsMap
          /\ \A k \in StoredNumbers :
               k \in DOMAIN commentsMap /\ commentsMap[k] = ServerComments(k))
  /\ []((pc = "published" /\ SomeTask("not-ok")) =>
          /\ graphData = buildGraphData(issuesData, commentsMap)
          /\ \A i \in DOMAIN tasks : NumberToString(TaskNumber(i)) \in NodeIds(graphData))
  /\ ((pc = "comments" /\ SomeTask("not-ok"))
        ~> (pc = "published" \/ SomeTask("rejected")))

\* a graph published although the comments of its first issue could not be
\* fetched, with the comments of its second issue in use
PublishedWithoutSomeComments ==
  /\ pc = "published"
  /\ Len(tasks) >= 2
  /\ tasks[1] = "not-ok"
  /\ tasks[2] = "stored"
  /\ TaskNumber(1) \notin DOMAIN commentsMap
  /\ TaskNumber(2) \in DOMAIN commentsMap
  /\ NumberToString(TaskNumber(1)) \in NodeIds(graphData)

Settled == {"stored", "not-ok", "skipped"}

\* C14: buildGraphData runs only when every comment task has been skipped
\* or has had its response processed, a successful one being in the
\* mapping; the graph is built from that mapping, and once it is published
\* no task is left that could still write to the mapping.
BuilderWaitsForAllComments ==
  /\ [][(pc' = "published" /\ pc # "published") =>
          /\ \A i \in DOMAIN tasks : tasks[i] \in Settled
          /\ \A i \in DOMAIN tasks :
               tasks[i] = "stored" => TaskNumber(i) \in DOMAIN commentsMap
          /\ commentsMap' = commentsMap
          /\ graphData' = buildGraphData(issuesData, commentsMap)]_vars
  /\ [][graphData' # graphData => (pc = "comments" /\ pc' = "published")]_vars
  /\ [](pc = "published" => \A i \in DOMAIN tasks : tasks[i] \in Settled)

\* a graph published after the comments of two issues were stored
PublishedAfterAllStored ==
  /\ pc = "published"
  /\ Len(tasks) >= 2
  /\ \A i \in DOMAIN tasks : tasks[i] = "stored"
  /\ graphData.edges # <<>>

\* the mapping the responses stored so far make up, in whatever order they
\* arrived
MappingOfStored == [k \in StoredNumbers |-> ServerComments(k)]

\* C15: whatever the order in which the comment responses arrive, a task
\* stores under the number of its own issue only, so the mapping holds
\* exactly the comments of the issues whose responses were stored, and the
\* published graph is the one built from them.
CompletionOrderIsIrrelevant ==
  /\ [][(pc = "comments" /\ commentsMap' # commentsMap) =>
          \E i \in DOMAIN tasks :
            /\ tasks[i] = "parsing"
            /\ tasks'[i] = "stored"
            /\ DOMAIN commentsMap' = DOMAIN commentsMap \cup {TaskNumber(i)}
            /\ \A k \in DOMAIN commentsMap \ {TaskNumber(i)} :
                 commentsMap'[k] = commentsMap[k]]_vars
  /\ [](pc \in {"comments", "published"} =>
          /\ DOMAIN commentsMap = StoredNumbers
          /\ \A k \in StoredNumbers : commentsMap[k] = ServerComments(k))
  /\ [](pc = "published" =>
          graphData = buildGraphData(issuesData, MappingOfStored))

\* the response of a later issue is stored while that of the first issue
\* is still awaited
StoredOutOfOrder ==
  /\ pc = "comments"
  /\ Len(tasks) >= 2
  /\ tasks[1] = "pending"
  /\ tasks[2] = "stored"
  /\ TaskNumber(1) # TaskNumber(2)

\* every edge of the graph joins two of its nodes
WellFormed(graph) ==
  \A e \in DOMAIN graph.edges :
    /\ graph.edges[e].source \in NodeIds(graph)
    /\ graph.edges[e].target \in NodeIds(graph)

\* C16: graphData changes in one step only, the one that assigns the
\* output of buildGraphData once the listing and every comment task are
\* done; while a build runs and when it fails the graph of the build
\* before stays on display, and what is on display is always a whole graph.
GraphIsReplacedAtomically ==
  /\ [][graphData' # graphData =>
          /\ pc = "comments"
          /\ pc' = "published"
          /\ \A i \in DOMAIN tasks : tasks[i] \in Settled
          /\ graphData' = buildGraphData(issuesData, commentsMap)]_vars
  /\ [][pc' \in {"idle", "listing", "comments", "failed", "rejected"} =>
          graphData' = graphData]_vars
  /\ [](WellFormed(graphData))

\* comment responses of a build are arriving while the graph of the build
\* before it is on display
PreviousGraphShownDuringBuild ==
  /\ pc = "comments"
  /\ SomeTask("stored")
  /\ SomeTask("pending")
  /\ graphData # EmptyGraph

\* the step shows a partial-result signal
SignalsPartial == toasts' \cap PartialSignals # {} /\ toasts \cap PartialSignals = {}

\* C17: the step in which fetchAllIssues stops early (request budget
\* spent, or remaining-rate-limit buffer reached) raises no error and
\* starts the comment phase on the issues gathered so far; the build then
\* goes on to publish the graph built from them, unless a comments fetch
\* fails on the network.
PartialResultDoesNotHalt ==
  /\ [][SignalsPartial =>
          /\ pc' = "comments"
          /\ issuesData' = allIssues'
          /\ Len(tasks') = Len(allIssues')
          /\ loading'
          /\ thrown' = NoError
          /\ toasts' \cap ErrorToasts = {}]_vars
  /\ []((pc = "published" /\ toasts \cap PartialSignals # {}) =>
          /\ issuesData = allIssues
          /\ graphData = buildGraphData(allIssues, commentsMap)
          /\ Len(graphData.nodes) = Len(allIssues)
          /\ thrown = NoError
          /\ toasts \cap ErrorToasts = {})
  /\ ((pc = "comments" /\ toasts \cap PartialSignals # {})
        ~> (pc = "published" \/ SomeTask("rejected")))

\* the graph of the issues of 60 pages, published after the request limit
\* stopped the listing
PublishedAfterRequestLimit ==
  /\ pc = "published"
  /\ "request-limit" \in toasts
  /\ listingRequests = RequestLimit
  /\ Len(graphData.nodes) >= RequestLimit
  /\ thrown = NoError

(***************************************************************************)
(* Properties of the URL check, checked under SpecAgain.                   *)
(***************************************************************************)
\* url is https://github.com/<owner>/<repository>, with or without a final
\* slash: an owner of a letters, digits and hyphens, a repository name of
\* b letters, digits, hyphens, dots and underscores
MatchesPattern(url) ==
  LET n == Len(UrlPrefix)
  IN  \E a \in 1..Len(url) : \E slash \in {0, 1} :
        \E b \in {Len(url) - n - a - 1 - slash} :
        /\ b >= 1
        /\ \A k \in 1..n : url[k] = UrlPrefix[k]
        /\ \A k \in (n + 1)..(n + a) : url[k] \in OwnerChars
        /\ url[n + a + 1] = "/"
        /\ \A k \in (n + a + 2)..(n + a + 1 + b) : url[k] \in RepoChars
        /\ slash = 1 => url[Len(url)] = "/"

\* URLs on both sides of the pattern
UrlSamples ==
  Urls \cup {ValidUrl \o <<"/">>, UrlPrefix \o <<"a", "/", "_">>,
             UrlPrefix \o <<"-", "/", "-", "/">>, UrlPrefix \o <<".", "/", "r">>}

\* C18: a submit with a URL that does not match the pattern sends no
\* request, does not set loading, leaves the issue list and the graph as
\* they were and shows the validation error; validateGitHubUrl accepts
\* exactly the URLs that match the pattern.
InvalidUrlIsRejectedBeforeAnyRequest ==
  /\ [][(pc = "idle" /\ pc' # "idle" /\ ~MatchesPattern(repoUrl)) =>
          /\ pc' = "rejected"
          /\ listingRequests' = 0
          /\ commentRequests' = 0
          /\ requestCount' = 0
          /\ loading' = FALSE
          /\ issuesState' = issuesState
          /\ graphData' = graphData
          /\ thrown' = NoError
          /\ toasts' = toasts \cup {"error:invalid-url"}]_vars
  /\ [][(pc = "idle" /\ pc' # "idle" /\ MatchesPattern(repoUrl)) =>
          /\ pc' = "listing"
          /\ loading'
          /\ "error:invalid-url" \notin toasts']_vars
  /\ [](pc = "rejected" =>
          \A u \in UrlSamples : validateGitHubUrl(u) <=> MatchesPattern(u))

\* a URL with a path after the repository, rejected while the graph and
\* the issues of an earlier build are on display
InvalidUrlRejectedOverPublishedGraph ==
  /\ pc = "rejected"
  /\ repoUrl = UrlWithPath
  /\ graphData # EmptyGraph
  /\ issuesState # <<>>
  /\ toasts = {"error:invalid-url"}
  /\ listingRequests = 0

(***************************************************************************)
(* Properties of findIssueReferences, checked under SpecRefs.              *)
(***************************************************************************)
RefsReturned == call.op = "findIssueReferences" /\ call.returned

\* C19: the result of findIssueReferences holds the integers of the
\* #<digits> occurrences of the text, leading zeros dropped, and holds no
\* integer twice.
ReferencesHoldNoDuplicate ==
  RefsReturned =>
    /\ {call.result[k] : k \in DOMAIN call.result} = MentionsIn(call.text)
    /\ \A j, k \in DOMAIN call.result :
         call.result[j] = call.result[k] => j = k

(***************************************************************************)
(* Properties of buildGraphData on plain texts, checked under SpecPlain.   *)
(***************************************************************************)
\* no body of an issue and no body of a mapped comment holds a #<digits>
NoMention(issues, comments) ==
  /\ \A i \in DOMAIN issues :
       issues[i].body # Null => MentionsIn(issues[i].body) = {}
  /\ \A k \in DOMAIN comments : \A c \in DOMAIN comments[k] :
       MentionsIn(comments[k][c].body) = {}

\* C20: when no issue body and no comment body holds a #<digits>, the
\* returned edge list is empty and every node, one per issue, has size 1.
NoMentionGivesNoEdge ==
  (Returned /\ NoMention(call.issues, call.commentsMap)) =>
    /\ call.result.edges = <<>>
    /\ Len(call.result.nodes) = Len(call.issues)
    /\ \A n \in DOMAIN call.result.nodes : call.result.nodes[n].size = 1

\* a graph built from issues and a comment that hold '#' and digits but no
\* '#' followed by a digit
BuiltFromNearMentions ==
  /\ Returned
  /\ NoMention(call.issues, call.commentsMap)
  /\ Len(call.issues) >= 2
  /\ call.issues[2].body = <<"1", "#">>
  /\ call.commentsMap # EmptyMap
  /\ call.commentsMap[1][1].body = <<"#", "a">>
  /\ Len(call.result.nodes) = Len(call.issues)

(***************************************************************************)
(* More properties of findIssueReferences, checked under SpecRefs.         *)
(***************************************************************************)
\* the text holds '#' and right after it the decimal digits of n
HoldsHashThenDigitsOf(text, n) ==
  \E i \in DOMAIN text :
    /\ i + Len(Mention(n)) - 1 <= Len(text)
    /\ SubSeq(text, i, i + Len(Mention(n)) - 1) = Mention(n)

\* C22: every integer findIssueReferences returns is 1 or more, and the
\* text holds '#' immediately followed by its decimal digits; a text that
\* holds '#0' and no other mention gives no reference.
ReferencesArePositive ==
  RefsReturned =>
    \A k \in DOMAIN call.result :
      /\ call.result[k] >= 1
      /\ HoldsHashThenDigitsOf(call.text, call.result[k])

(***************************************************************************)
(* Properties of calls on absent texts, checked under SpecAbsent.          *)
(***************************************************************************)
\* C23: no call of findIssueReferences and no call of buildGraphData
\* throws; findIssueReferences returns no reference for a text that is
\* empty or absent, and buildGraphData returns a graph with a node per
\* issue whatever bodies are empty or absent.
AbsentTextNeverFails ==
  /\ ~call.threw
  /\ (call.op = "findIssueReferences" /\ call.returned /\ call.text \in {Null, <<>>})
       => call.result = <<>>
  /\ (call.op = "buildGraphData" /\ call.returned)
       => Len(call.result.nodes) = Len(call.issues)

(***************************************************************************)
(* Properties of the builder of part_001, checked under SpecCounts.        *)
(***************************************************************************)
\* C24: in the graph the builder of part_001 returns, the size of every
\* node is 1 plus the number of returned edges whose target is the node's
\* id, also when issues mention themselves or numbers that are absent.
CountsFirstSizeIsOnePlusInDegree ==
  (call.op = "buildGraphData of part_001" /\ call.returned) =>
    \A k \in DOMAIN call.result.nodes :
      call.result.nodes[k].size =
        1 + Cardinality({e \in DOMAIN call.result.edges :
                           call.result.edges[e].target = call.result.nodes[k].id})

(***************************************************************************)
(* Properties of LoadGraph, checked under SpecLoad.                        *)
(***************************************************************************)
\* the effect of LoadGraph runs in the step
EffectRuns ==
  /\ call.op = "LoadGraph"
  /\ call'.mounted
  /\ (~call.mounted \/ call'.renders # call.renders)

\* C25: when the effect runs with a graphData whose serialized content is
\* that of the graph loaded last (another object, or only darkMode has
\* changed), the renderer's graph is not created again; when the content
\* differs, the graph is created and loaded exactly once and the content
\* remembered is that of the new graphData.
GraphIsReloadedByContent ==
  [][EffectRuns =>
       IF JSONStringify(call'.graphData) = call.prevGraphDataRef
       THEN /\ call'.loads = call.loads
            /\ call'.prevGraphDataRef = call.prevGraphDataRef
       ELSE /\ call'.loads = call.loads + 1
            /\ call'.prevGraphDataRef = JSONStringify(call'.graphData)
            /\ call'.loaded = DirectedGraphOf(call'.graphData, call'.darkMode)]_vars

(***************************************************************************)
(* Properties of builds requested one after another, checked under         *)
(* SpecAgain.                                                              *)
(***************************************************************************)
\* a call of handleSubmit has passed the URL check and has not returned
BuildInFlight == pc \in {"listing", "comments"}

\* the step publishes the graph of the build in flight
Publishes == pc = "comments" /\ pc' = "published"

StoredIssuesMatchGraph ==
  ~BuildInFlight =>
    NodeIds(graphData) = {NumberToString(issuesState[i].number) : i \in DOMAIN issuesState}

(***************************************************************************)
(* Properties of the build of a caller without a token, checked under      *)
(* SpecAnonymous.                                                          *)
(***************************************************************************)
\* C28: a build started without a token ends, every request being answered
\* in the end: loading is set when the build starts, stays set while it is
\* in flight, and is reset when it ends, whether it publishes a graph (of a
\* whole or a partial listing) or fails (in the listing or in a comments
\* request); at most 60 listing requests are sent on the way.
AnonymousBuildTerminates ==
  /\ [][(BuildInFlight' /\ ~BuildInFlight) => (~loading /\ loading')]_vars
  /\ [](BuildInFlight => loading)
  /\ [](~BuildInFlight => ~loading)
  /\ [](listingRequests <= RequestLimit)
  /\ [][(BuildInFlight /\ ~BuildInFlight') =>
          (pc' \in {"published", "failed"} /\ ~loading')]_vars
  /\ (loading ~> ~loading)

\* a build that spent its 60 listing requests and then failed in a comments
\* request, loading reset
FailedInCommentsAfterRequestLimit ==
  /\ pc = "failed"
  /\ ~loading
  /\ listingRequests = RequestLimit
  /\ "request-limit" \in toasts
  /\ SomeTask("rejected")
  /\ SomeTask("pending")

(***************************************************************************)
(* More properties of the fetch pipeline, checked under Spec.              *)
(***************************************************************************)
\* C29: the n-th listing request is the request for page n; a listing
\* request is sent by handleSubmit at its start or in the step that handles
\* a successful response with at least one issue, and is the request for
\* the page after the one just answered; comment requests are sent only in
\* the step that handles the answer to the last listing request, and no
\* listing request is sent after them.
ListingIsSequentialInPageOrder ==
  /\ [](pc = "listing" => (page = listingRequests /\ requestCount = listingRequests))
  /\ [][listingRequests' # listingRequests =>
          /\ listingRequests' = listingRequests + 1
          /\ pc' = "listing"
          /\ page' = listingRequests + 1
          /\ commentRequests' = 0
          /\ \/ pc = "idle" /\ listingRequests = 0
             \/ /\ pc = "listing"
                /\ page = listingRequests
                /\ lastResponse'.ok
                /\ lastResponse'.items # <<>>]_vars
  /\ [][commentRequests' # commentRequests =>
          /\ pc = "listing"
          /\ pc' = "comments"
          /\ lastResponse'.ok
          /\ listingRequests' = listingRequests]_vars
  /\ [][(pc \in {"comments", "published", "failed"}) =>
          listingRequests' = listingRequests]_vars

\* pages 1, 2 and 3 were requested in turn, the third came back empty, and
\* the comment requests were sent after it
ThreePagesListedThenComments ==
  /\ pc = "comments"
  /\ listingRequests = 3
  /\ page = 3
  /\ lastResponse.ok
  /\ lastResponse.items = <<>>
  /\ commentRequests = Len(issuesData)
  /\ commentRequests > PageSize

\* C30: a successful listing response that holds issues and carries no
\* x-ratelimit-remaining header ends the listing, with or without a token:
\* no further listing request is sent, the approaching-limit signal is
\* shown and the issues gathered so far, that page included, are returned;
\* so a server that never sends the header is asked for one page only.
AbsentRemainingHeaderStopsListing ==
  /\ [][(/\ PageArrives
         /\ lastResponse'.items # <<>>
         /\ lastResponse'.remaining = Null) =>
          /\ ReturnsIssues(allIssues \o lastResponse'.items)
          /\ "approaching-limit" \in toasts'
          /\ thrown' = NoError
          /\ loading']_vars
  /\ [](quota = <<>> =>
          /\ listingRequests <= 1
          /\ Len(allIssues) <= PageSize
          /\ (pc \in {"comments", "published"} /\ issuesData # <<>>)
               => "approaching-limit" \in toasts)

\* a caller with a token got the first page of a repository of more than
\* a page from a server that sends no x-ratelimit-remaining header, and
\* the listing ended there
StoppedAfterFirstPageWithToken ==
  /\ token
  /\ quota = <<>>
  /\ pc = "comments"
  /\ listingRequests = 1
  /\ lastResponse.remaining = Null
  /\ Len(issuesData) = PageSize
  /\ Len(repository) > PageSize
  /\ "approaching-limit" \in toasts

====
